---- MODULE Spec2Model ----
(***************************************************************************)
(* Model of afids_regrf/apply.py: apply_afid_model (the single-landmark    *)
(* locator) and apply_all_afid_models (the 32-landmark aggregator).        *)
(*                                                                         *)
(* Real-valued quantities (affine entries, world coordinates) are kept as  *)
(* integers counting units of 1/Denom, so that the final astype(int)       *)
(* conversion is a real truncation.  Voxel indices and the integers handed *)
(* to the FCSV writer are plain integers.  Sequences are 1-based: position *)
(* p of a sequence is Python index p-1.                                    *)
(***************************************************************************)
EXTENDS Integers, Sequences, FiniteSets, TLC

\* ---------------------------------------------------------------- bounds
MaxSubjects == 2      \* longest subject / seed-file list tried
MaxCand == 3          \* most candidates the feature generator returns
Denom == 2            \* fixed-point denominator of real-valued quantities

\* ------------------------------------------------------ program constants
NumAfids == 32        \* range(1, 33)
ZfillWidth == 2       \* str(afid_num).zfill(2)
DefaultPadding == 0
DefaultSize == 1
DefaultSamplingRate == 5

\* ------------------------------------------------------------ input sets
Paddings == {DefaultPadding}
Sizes == {DefaultSize, DefaultSamplingRate}
SamplingRates == {DefaultSamplingRate}
TrainedRates == {DefaultSize, DefaultSamplingRate}
ScoreVals == {1, 9}
Example == <<1, 9, 4>>
Garbage == {<<0, 0, 0>>, <<-9, 5, 77>>}

Min(a, b) == IF a < b THEN a ELSE b

SeqsUpTo(S, n) == UNION {[1..k -> S] : k \in 1..n}

Identity ==
  << <<Denom, 0, 0, 0>>, <<0, Denom, 0, 0>>, <<0, 0, Denom, 0>>, <<0, 0, 0, Denom>> >>

Flipped ==
  << <<-1, 0, 0, -5>>, <<0, 1, 0, 3>>, <<0, 0, 3, -7>>, <<0, 0, 0, Denom>> >>

Sheared ==
  << <<Denom, 1, 0, 1>>, <<0, Denom, 0, -3>>, <<1, 0, Denom, 0>>, <<1, 1, 0, 3>> >>

Affines == {Identity, Flipped, Sheared}

NoFault == [kind |-> "none", at |-> 0]

Faults ==
  {NoFault, [kind |-> "model", at |-> 3], [kind |-> "model", at |-> NumAfids],
   [kind |-> "features", at |-> 2]}

VARIABLES
  subject_paths,      \* argument of apply_all_afid_models
  fcsv_paths,         \* argument of apply_all_afid_models
  padding,            \* argument of apply_all_afid_models
  size,               \* argument of apply_all_afid_models
  sampling_rate,      \* argument of apply_all_afid_models
  scores,             \* what the trained models predict for the candidates
  affine,             \* the voxel-to-world transform of the images
  fault,              \* which file of the run, if any, is missing or malformed
  pc,                 \* position in apply_all_afid_models
  afid_num,           \* loop variable of apply_all_afid_models
  feature_offsets,    \* the loaded feature-offset archive
  all_afids_coords,   \* the in-progress coordinate table
  afid_coords,        \* the coordinate returned by the last successful call
  err,                \* the exception that ended the run, "" if none
  calls,              \* landmark indices the locator was called with
  genCalls,           \* arguments of every gen_features call
  loads,              \* model file names passed to joblib.load
  returned,           \* coordinates returned by successful locator calls
  last,               \* aff, samples, scores, idx of the last successful call
  written             \* tables handed to afids_to_fcsv

vars ==
  <<subject_paths, fcsv_paths, padding, size, sampling_rate, scores, affine,
    fault, pc, afid_num, feature_offsets, all_afids_coords, afid_coords, err,
    calls, genCalls, loads, returned, last, written>>

inputs == <<subject_paths, fcsv_paths, padding, size, sampling_rate, scores, affine, fault>>

\* ------------------------------------------------------------- file system
\* The feature-offset archive: two arrays, arr_0 and arr_1.
OffsetArchive == [arr_0 |-> <<1, 2>>, arr_1 |-> <<3, 4>>]

np_load(path) == OffsetArchive

Digits(n) == IF n < 10 THEN <<n>> ELSE <<n \div 10, n % 10>>

RECURSIVE zfill(_, _)
zfill(s, width) == IF Len(s) >= width THEN s ELSE zfill(<<0>> \o s, width)

\* f"afid-{str(afid_num).zfill(2)}_desc-rf_sampleRate-iso{sampling_rate}vox_model.joblib"
model_fname(num, rate) == [nn |-> zfill(Digits(num), ZfillWidth), iso |-> rate]

\* The model directory holds one model per landmark and trained sampling rate,
\* except the one the fault removes.
ModelDir(flt) ==
  {model_fname(i, r) : i \in 1..NumAfids, r \in TrainedRates}
    \ (IF flt.kind = "model" THEN {model_fname(flt.at, r) : r \in TrainedRates} ELSE {})

\* --------------------------------------------------- external collaborators
\* utils.get_fid: the seed of row `row` (0-based) of a subject's seed file.
get_fid(fcsv_path, row) == <<row, 0, fcsv_path - 1>>

gen_features_fails(flt, fid) == flt.kind = "features" /\ fid[1] = flt.at - 1

\* utils.gen_features in predict mode: (affine, feature differences, voxels).
gen_features(aff, n, subject_path, fid, offsets, pad, rate, sz, predict) ==
  << aff,
     [c \in 1..n |-> c],
     [c \in 1..n |-> <<fid[1] + c, fid[2] + c, fid[3] + c>>] >>

\* The trained model of a landmark: one score per feature vector.
predict(fname, table, diff) ==
  LET n == Len(table)
      shift == (10 * fname.nn[1] + fname.nn[2]) - 1
  IN [c \in 1..Len(diff) |-> table[((diff[c] - 1 + shift) % n) + 1]]

\* ------------------------------------------------------ numpy / pandas / zip
Max(a, b) == IF a > b THEN a ELSE b

\* a zip that pads the shorter list instead of stopping at its end
zip_longest(a, b) ==
  [k \in 1..Max(Len(a), Len(b)) |->
     <<IF k <= Len(a) THEN a[k] ELSE 1, IF k <= Len(b) THEN b[k] ELSE 1>>]

zip(a, b) == [k \in 1..Min(Len(a), Len(b)) |-> <<a[k], b[k]>>]

\* it.chain.from_iterable over the tuples the generator yields
RECURSIVE chain(_)
chain(tuples) == IF tuples = <<>> THEN <<>> ELSE Head(tuples) \o chain(Tail(tuples))

\* `aff, diff, samples = <iterator>` pulls items until it has three and then
\* probes for a fourth, so it evaluates the generator for at most two pairs.
PairsPulled(n) == Min(n, 2)

\* the unpacking succeeds exactly when the iterator yields three items
UnpackError(items) == IF Len(items) = 3 THEN "" ELSE "ValueError"

\* idxmin: label of the first occurrence of the minimum
RECURSIVE idxminFrom(_, _, _)
idxminFrom(s, k, best) ==
  IF k > Len(s) THEN best
  ELSE idxminFrom(s, k + 1, IF s[k] < s[best] THEN k ELSE best)

idxmin(s) == idxminFrom(s, 2, 1)

\* an argmax that keeps the last occurrence of the maximum
RECURSIVE idxmaxLastFrom(_, _, _)
idxmaxLastFrom(s, k, best) ==
  IF k > Len(s) THEN best
  ELSE idxmaxLastFrom(s, k + 1, IF s[k] >= s[best] THEN k ELSE best)

idxmaxLast(s) == idxmaxLastFrom(s, 2, 1)

\* dist_df[0].idxmax(): label of the first occurrence of the maximum
RECURSIVE idxmaxFrom(_, _, _)
idxmaxFrom(s, k, best) ==
  IF k > Len(s) THEN best
  ELSE idxmaxFrom(s, k + 1, IF s[k] > s[best] THEN k ELSE best)

idxmax(s) == idxmaxFrom(s, 2, 1)

\* aff[:3, :3]
Rot(aff) == [r \in 1..3 |-> [c \in 1..3 |-> aff[r][c]]]

\* aff[3, :3]: the last row taken for the last column
TransRow(aff) == [r \in 1..3 |-> aff[4][r]]

\* aff[:3, 3]
Trans(aff) == [r \in 1..3 |-> aff[r][4]]

dot(M, v) == [r \in 1..3 |-> M[r][1] * v[1] + M[r][2] * v[2] + M[r][3] * v[3]]

\* aff[:3, :3].dot(samples[idx]) + aff[:3, 3]
back_project(aff, v) == [r \in 1..3 |-> dot(Rot(aff), v)[r] + Trans(aff)[r]]

\* np.vstack((afid_coords, all_afids_coords)): the new row stacked on top
vstackFront(table, row) == <<row>> \o table

\* np.vstack((all_afids_coords, afid_coords))
vstack(table, row) == Append(table, row)

\* all_afids_coords without the slice
KeepAll(table) == table

\* all_afids_coords[1:]
DropFirst(table) == Tail(table)

\* x.astype(int) of one real: truncation toward zero
TruncToInt(x) == IF x >= 0 THEN x \div Denom ELSE -((-x) \div Denom)

astype_int(table) == [i \in 1..Len(table) |-> [c \in 1..3 |-> TruncToInt(table[i][c])]]

\* ------------------------------------------------------- apply_afid_model
NoDetail == [aff |-> <<>>, samples |-> <<>>, scores |-> <<>>, idx |-> 0]

Failure(e, gen, lds) ==
  [ok |-> FALSE, err |-> e, coords |-> <<>>, gen |-> gen, loads |-> lds, detail |-> NoDetail]

GenArgs(num, pair, offsets, pad, rate, sz) ==
  [subject_path |-> pair[1], fid |-> get_fid(pair[2], num - 1), feature_offsets |-> offsets,
   padding |-> pad, sampling_rate |-> rate, size |-> sz, predict |-> TRUE]

\* env = [affine, scores, fault]: the images, the trained models and the fault
apply_afid_model(env, num, subjects, fcsvs, offsets, pad, rate, sz) ==
  LET pairs == zip(subjects, fcsvs)
      pulled == PairsPulled(Len(pairs))
      gen == [k \in 1..pulled |-> GenArgs(num, pairs[k], offsets, pad, rate, sz)]
      tuples == [k \in 1..Len(pairs) |->
                   gen_features(env.affine, Len(env.scores), pairs[k][1],
                                get_fid(pairs[k][2], num - 1), offsets, pad, rate, sz, TRUE)]
      items == chain(tuples)
      fname == model_fname(num, rate)
  IN IF pulled >= 1 /\ gen_features_fails(env.fault, gen[1].fid)
       THEN Failure("FeatureGenerationError", <<gen[1]>>, <<>>)
     ELSE IF UnpackError(items) # ""
       THEN Failure(UnpackError(items), gen, <<>>)
     ELSE IF fname \notin ModelDir(env.fault)
       THEN Failure("FileNotFoundError", gen, <<fname>>)
     ELSE
       LET aff == items[1]
           diff == items[2]
           samples == items[3]
           dist_predict == predict(fname, env.scores, diff)
           idx == idxmax(dist_predict)
       IN [ok |-> TRUE, err |-> "", coords |-> back_project(aff, samples[idx]),
           gen |-> gen, loads |-> <<fname>>,
           detail |-> [aff |-> aff, samples |-> samples, scores |-> dist_predict, idx |-> idx]]

\* --------------------------------------------------- apply_all_afid_models
Init ==
  /\ \E n \in 0..MaxSubjects : subject_paths = [k \in 1..n |-> k]
  /\ \E m \in 0..MaxSubjects : fcsv_paths = [k \in 1..m |-> k]
  /\ padding \in Paddings
  /\ size \in Sizes
  /\ sampling_rate \in SamplingRates
  /\ scores \in SeqsUpTo(ScoreVals, MaxCand) \cup {Example}
  /\ affine \in Affines
  /\ fault \in Faults
  /\ pc = "start"
  /\ afid_num = 0
  /\ feature_offsets = <<>>
  /\ all_afids_coords = <<>>
  /\ afid_coords = <<>>
  /\ err = ""
  /\ calls = <<>>
  /\ genCalls = <<>>
  /\ loads = <<>>
  /\ returned = <<>>
  /\ last = NoDetail
  /\ written = <<>>

\* all_afids_coords = np.empty((3,)); feature_offsets = np.load(...); first
\* value of the range.  np.empty leaves the row uninitialised.
Start ==
  /\ pc = "start"
  /\ \E junk \in Garbage : all_afids_coords' = <<junk>>
  /\ feature_offsets' = np_load("feature_offsets_path")
  /\ afid_num' = 1
  /\ pc' = "call"
  /\ UNCHANGED <<inputs, afid_coords, err, calls, genCalls, loads, returned, last, written>>

\* a loop that swallows the exception of the locator
AfterCallLenient(res) == "stack"

\* where the loop goes after the locator call: an exception leaves the function
AfterCall(res) == IF res.ok THEN "stack" ELSE "aborted"

\* afid_coords = apply_afid_model(afid_num, subject_paths, fcsv_paths,
\*     model_dir_path, (arr_0, arr_1), padding, size, sampling_rate)
\* The arguments are positional; the callee's last two parameters are
\* (sampling_rate, size).
CallLocator ==
  /\ pc = "call"
  /\ afid_num <= NumAfids
  /\ LET res == apply_afid_model([affine |-> affine, scores |-> scores, fault |-> fault],
                                 afid_num, subject_paths, fcsv_paths,
                                 <<feature_offsets.arr_0, feature_offsets.arr_1>>,
                                 padding, size, sampling_rate)
     IN /\ calls' = Append(calls, afid_num)
        /\ genCalls' = genCalls \o res.gen
        /\ loads' = loads \o res.loads
        /\ afid_coords' = IF res.ok THEN res.coords ELSE afid_coords
        /\ last' = IF res.ok THEN res.detail ELSE last
        /\ err' = res.err
        /\ returned' = IF res.ok THEN Append(returned, res.coords) ELSE returned
        /\ pc' = AfterCall(res)
  /\ UNCHANGED <<inputs, afid_num, feature_offsets, all_afids_coords, written>>

\* all_afids_coords = np.vstack((all_afids_coords, afid_coords)); next value
Stack ==
  /\ pc = "stack"
  /\ all_afids_coords' = vstack(all_afids_coords, afid_coords)
  /\ afid_num' = afid_num + 1
  /\ pc' = "call"
  /\ UNCHANGED <<inputs, feature_offsets, afid_coords, err, calls, genCalls, loads,
                 returned, last, written>>

\* what the writer is handed: all_afids_coords[1:].astype(int)
WriterArg(table) == astype_int(DropFirst(table))

\* afids_to_fcsv(all_afids_coords[1:].astype(int)) once the range is exhausted
WriteFcsv ==
  /\ pc = "call"
  /\ afid_num > NumAfids
  /\ written' = Append(written, WriterArg(all_afids_coords))
  /\ pc' = "done"
  /\ UNCHANGED <<inputs, afid_num, feature_offsets, all_afids_coords, afid_coords, err,
                 calls, genCalls, loads, returned, last>>

Next == Start \/ CallLocator \/ Stack \/ WriteFcsv

Spec == Init /\ [][Next]_vars

\* ------------------------------------------------------------- properties
\* R.v + t written out entry by entry from rows 1..3 of the transform
WorldOf(T, v) ==
  << T[1][1] * v[1] + T[1][2] * v[2] + T[1][3] * v[3] + T[1][4],
     T[2][1] * v[1] + T[2][2] * v[2] + T[2][3] * v[3] + T[2][4],
     T[3][1] * v[1] + T[3][2] * v[2] + T[3][3] * v[3] + T[3][4] >>

\* the positions at which a score sequence attains its maximum
ArgMaxSet(s) == {c \in DOMAIN s : \A d \in DOMAIN s : s[d] <= s[c]}

\* y is x/Denom with the fractional part discarded
IsTruncation(x, y) ==
  /\ x >= 0 => (y * Denom <= x /\ x < (y + 1) * Denom)
  /\ x < 0 => (y * Denom >= x /\ x > (y - 1) * Denom)

UpTo(n) == [k \in 1..n |-> k]

CexC2 ==
  (Len(subject_paths) = Len(fcsv_paths) /\ Len(subject_paths) >= 1 /\ fault = NoFault)
    => pc # "aborted"

\* C3: when the run is done the writer was handed one table of exactly 32
\* rows, row i being the integer conversion of the coordinate the locator
\* returned for landmark i.
ThmC3 ==
  pc = "done" =>
    /\ Len(written) = 1
    /\ Len(returned) = NumAfids
    /\ Len(written[1]) = NumAfids
    /\ \A i \in 1..NumAfids : \A c \in 1..3 : IsTruncation(returned[i][c], written[1][i][c])

WitC3 ==
  /\ pc = "done"
  /\ Len(written[1]) = NumAfids
  /\ \E i \in 1..NumAfids : \E c \in 1..3 : returned[i][c] < 0 /\ returned[i][c] % Denom # 0

\* C4: a failed locator call ends the run: no later call is made and the
\* writer is never invoked; the writer is invoked at most once and only
\* after all 32 locator calls have returned.
ThmC4 ==
  /\ [](/\ Len(written) <= 1
        /\ written # <<>> => (Len(returned) = NumAfids /\ err = "")
        /\ err # "" => /\ pc = "aborted"
                       /\ written = <<>>
                       /\ calls = UpTo(afid_num)
                       /\ Len(returned) = afid_num - 1)
  /\ [][pc # "aborted"]_vars

WitC4 ==
  /\ pc = "aborted"
  /\ err = "FileNotFoundError"
  /\ afid_num = NumAfids
  /\ Len(returned) = NumAfids - 1
  /\ written = <<>>

\* C5: every model file loaded is named after the run's sampling rate, and
\* every feature-generator call receives the run's sampling rate as its
\* sampling rate and the run's size as its size.
CexC5 ==
  /\ \A k \in DOMAIN loads :
       loads[k] = [nn |-> <<k \div 10, k % 10>>, iso |-> sampling_rate]
  /\ \A k \in DOMAIN genCalls :
       /\ genCalls[k].sampling_rate = sampling_rate
       /\ genCalls[k].size = size
       /\ genCalls[k].padding = padding

CexC7 ==
  Len(subject_paths) # Len(fcsv_paths) => (returned = <<>> /\ written = <<>>)

ThmC9 ==
  pc = "stack" =>
    /\ last.aff = affine
    /\ afid_coords = WorldOf(last.aff, last.samples[last.idx])

WitC9 ==
  /\ pc = "stack"
  /\ affine = Sheared
  /\ Len(last.samples) >= 2
  /\ afid_coords # WorldOf(Identity, last.samples[last.idx])

\* C10: the locator is called for 1, 2, ... in order, each call starting
\* only once the previous coordinate is in the table; the table is always
\* the placeholder followed by the coordinates of the completed landmarks in
\* order, rows once appended never change, and every call gets the same
\* feature offsets.
ThmC10 ==
  /\ [](/\ calls = UpTo(Len(calls))
        /\ pc # "start" =>
             /\ Len(all_afids_coords) >= 1
             /\ Tail(all_afids_coords) = SubSeq(returned, 1, Len(all_afids_coords) - 1)
             /\ pc = "call" => /\ Len(returned) = Len(all_afids_coords) - 1
                               /\ Len(calls) = afid_num - 1
                               /\ Len(returned) = afid_num - 1
             /\ pc = "stack" => /\ Len(returned) = Len(all_afids_coords)
                                /\ Len(calls) = afid_num
        /\ \A k \in DOMAIN genCalls :
             genCalls[k].feature_offsets = <<OffsetArchive.arr_0, OffsetArchive.arr_1>>)
  /\ [][pc # "start" =>
          /\ Len(all_afids_coords') >= Len(all_afids_coords)
          /\ \A i \in DOMAIN all_afids_coords : all_afids_coords'[i] = all_afids_coords[i]]_vars
  /\ [][calls' # calls => Len(all_afids_coords) = Len(calls) + 1]_vars

WitC10 ==
  /\ pc = "call"
  /\ afid_num = 17
  /\ Len(all_afids_coords) = 17
  /\ all_afids_coords[17] = returned[16]
====
